---- MODULE Spec2Model ----
(***************************************************************************)
(* Attestation Verification Engine of the Agent Attestation Protocol.      *)
(*                                                                         *)
(* The model follows packages/server/middleware.js: one challenge ledger   *)
(* (the `challenges` Map of aapMiddleware), the sweep `cleanup`, and the    *)
(* four POST handlers.  Every handler is synchronous JavaScript (it has no  *)
(* await), so Node runs it to completion before the next request: one      *)
(* action is one whole handler.  The order of the statements inside a       *)
(* handler is kept by threading the ledger value through the handler's     *)
(* operator and recording what each check observed (`run.observed`).        *)
(*                                                                         *)
(* Time is in abstract milliseconds.  The time limits are options of        *)
(* aapMiddleware (or, for the single mode, a literal) and are scaled down;  *)
(* their order (response limit < expiry) is the one of the defaults.        *)
(***************************************************************************)
EXTENDS Integers, Sequences, FiniteSets, TLC

\* ---------------------------------------------------------------- bounds
\* number of nonces generateNonce() hands out in one behaviour
NumNonces == 2
\* last instant of the clock
MaxTime == 3
\* options.batchSize (default BATCH_SIZE = 5), scaled
batchSize == 2
\* options.challengeExpiryMs (default 60000), scaled
challengeExpiryMs == 2
\* options.maxResponseTimeMs (default 8000), scaled
maxResponseTimeMs == 1
\* the literal 10000 of the single mode, scaled
singleMaxResponseTimeMs == 1
\* the ledger cap (10000 in the source), scaled
MAX_CHALLENGES == 2
\* number of nonces generateNonce() hands out in one behaviour of the
\* capacity specification: enough to fill the ledger past the cap and issue
\* once more
CapNonces == 4
\* options.challengeCount of the WebSocket verifier (default 7), scaled
challengeCount == 2
\* options.timePerChallengeMs (default 1200), scaled
timePerChallengeMs == 2
\* the grace of the per-challenge timer (the literal 100), scaled
challengeGraceMs == 1
\* the delay before the next challenge is sent (the literal 50), scaled
nextChallengeDelayMs == 1
\* the delay before the socket is closed after a result (the literal 300), scaled
closeDelayMs == 2
\* options.connectionTimeoutMs (default 15000), scaled
connectionTimeoutMs == 5
\* the lifetime of a session token (the literal 3600000), scaled
tokenTtlMs == 2
\* last instant of the WebSocket server's clock
WsMaxTime == 7
\* number of frames the client sends on the connection
MaxMessages == 4
\* number of different hex digits of a nonce (16 in the source), scaled
Radix == 2
\* number of digits of a nonce (32 in the source), scaled
NonceLen == 4
\* number of digits a seed is parsed from (the literal 4), scaled
SeedWidth == 3
\* number of digits of a salt (the literal 6), scaled
SaltWidth == 2
\* largest count generateBatch is called with
MaxCount == 3

\* ---------------------------------------------------------------- values
Min(a, b) == IF a < b THEN a ELSE b

\* Math.max
Max(a, b) == IF a > b THEN a ELSE b

\* One answer of a solutions array.  0 stands for a falsy answer (null, "",
\* 0, false); 1 and 2 are two different non-empty answers.
Answers == 0..2

\* The answer the validator of challenge i of the batch of nonce n accepts:
\* generateBatch derives every validator from the nonce alone.
Expected(n, i) == 1 + ((n + i) % 2)

\* The validators generateBatch(nonce, count) returns, one per challenge.
generateBatch(n, count) == [i \in 1..count |-> Expected(n, i)]

\* The validator generate(nonce) returns for the single mode.
generateChallenge(n) == Expected(n, 0)

\* A validator closure applied to an answer text.
Validator(expected, answer) == answer = expected

\* ---------------------------------------------------------------- crypto
Keys == 1..2

\* JSON.stringify of a solutions array: a string, never the array itself.
JSONstringify(v) == <<"json", v>>

\* A payload that leaves the timestamp out.
createProofDataNoTimestamp(nonce, solution, publicId, timestamp) ==
  <<nonce, solution, publicId>>

\* createProofData: the serialisation of exactly {nonce, solution,
\* publicId, timestamp}, in that order.
createProofData(nonce, solution, publicId, timestamp) ==
  <<nonce, solution, publicId, timestamp>>

\* sign(data, privateKey): a signature is valid for exactly the data and the
\* key pair it was made with.
sign(data, key) == [key |-> key, data |-> data]

\* verify(data, signature, publicKey)
verify(data, signature, publicKey) ==
  /\ signature.key = publicKey
  /\ signature.data = data

\* ---------------------------------------------------------------- ledger
\* The `challenges` Map, in insertion order.
Has(L, n) == \E i \in 1..Len(L) : L[i].nonce = n

Get(L, n) == L[CHOOSE i \in 1..Len(L) : L[i].nonce = n]

\* A delete that removes nothing.
DeleteKeeps(L, n) == L

\* challenges.delete(nonce)
Delete(L, n) == SelectSeq(L, LAMBDA e : e.nonce # n)

\* An expired path that leaves the entry in the ledger.
ConsumeExpiredKeeps(L, n) == L

\* POST /verify, expired path: challenges.delete(nonce) before the answer.
ConsumeExpired(L, n) == Delete(L, n)

\* A one-time use that is never enforced.
ConsumeKeeps(L, n) == L

\* POST /verify, after the expiry check: challenges.delete(nonce).
Consume(L, n) == Delete(L, n)

\* challenges.set(nonce, entry): a new key goes to the end.
Set(L, e) ==
  IF Has(L, e.nonce)
  THEN [i \in 1..Len(L) |-> IF L[i].nonce = e.nonce THEN e ELSE L[i]]
  ELSE Append(L, e)

\* An expiry test that also rejects the last valid instant.
IsExpiredEarly(t, e) == t >= e.expiresAt

\* now > challenge.expiresAt
IsExpired(t, e) == t > e.expiresAt

\* One insertion of a sort by ascending timestamp.
InsertOldestFirst(S, e) ==
  LET k == Cardinality({i \in 1..Len(S) : S[i].timestamp <= e.timestamp})
  IN SubSeq(S, 1, k) \o <<e>> \o SubSeq(S, k + 1, Len(S))

\* One insertion of a stable sort by descending timestamp.
InsertNewestFirst(S, e) ==
  LET k == Cardinality({i \in 1..Len(S) : S[i].timestamp >= e.timestamp})
  IN SubSeq(S, 1, k) \o <<e>> \o SubSeq(S, k + 1, Len(S))

RECURSIVE SortNewestFirst(_)
\* [...entries].sort((a, b) => b[1].timestamp - a[1].timestamp); stable.
SortNewestFirst(L) ==
  IF L = <<>> THEN <<>>
  ELSE InsertNewestFirst(SortNewestFirst(SubSeq(L, 1, Len(L) - 1)), L[Len(L)])

\* A sweep that already evicts when the ledger has reached the cap.
cleanupEager(L, t) ==
  LET live == SelectSeq(L, LAMBDA e : ~IsExpired(t, e))
  IN IF Len(live) >= MAX_CHALLENGES
     THEN SubSeq(SortNewestFirst(live), 1, MAX_CHALLENGES \div 2)
     ELSE live

\* The sweep: drop expired entries, then, above the cap, keep the newest half.
cleanup(L, t) ==
  LET live == SelectSeq(L, LAMBDA e : ~IsExpired(t, e))
  IN IF Len(live) > MAX_CHALLENGES
     THEN SubSeq(SortNewestFirst(live), 1, MAX_CHALLENGES \div 2)
     ELSE live

\* ---------------------------------------------------------------- config
\* options.minPassCount: unset (null) or a number.
MinPassOptions ==
  {[set |-> FALSE, val |-> 0]} \cup {[set |-> TRUE, val |-> v] : v \in 0..(batchSize - 1)}

\* minPassCount || size
RequiredPass(mpc, size) == IF mpc.set /\ mpc.val # 0 THEN mpc.val ELSE size

\* A liveness test that trusts the client's figure.
EffectiveClientOnly(client, server) == client

\* Math.max(responseTimeMs, serverResponseTime)
EffectiveResponseTime(client, server) == Max(client, server)

\* A batch validation that accepts every non-empty answer.
validateBatchLax(validators, solutions) ==
  LET results == [i \in 1..Len(validators) |-> solutions[i] # 0]
  IN [passed  |-> Cardinality({i \in 1..Len(validators) : results[i]}),
      total   |-> Len(validators),
      results |-> results]

\* validateBatch(validators, solutions)
validateBatch(validators, solutions) ==
  LET results == [i \in 1..Len(validators) |->
                    solutions[i] # 0 /\ Validator(validators[i], solutions[i])]
  IN [passed  |-> Cardinality({i \in 1..Len(validators) : results[i]}),
      total   |-> Len(validators),
      results |-> results]

NoBatchResult == [passed |-> 0, total |-> 0, results |-> <<>>]

\* ---------------------------------------------------------------- POST /verify
CheckNames ==
  <<"inputValid", "challengeExists", "notExpired", "solutionsExist",
    "solutionsValid", "responseTimeValid", "signatureValid">>

NoChecks == [c \in {CheckNames[i] : i \in 1..Len(CheckNames)} |-> FALSE]

\* A handler that forgets to set checks.notExpired.
PassedSkipsExpiry(checks, name) ==
  IF name = "notExpired" THEN checks ELSE [checks EXCEPT ![name] = TRUE]

\* checks.<name> = true
Passed(checks, name) == [checks EXCEPT ![name] = TRUE]

\* The fields of the request body the input check looks at.
Fields ==
  {"nonce", "publicId", "signature", "publicKey", "timestamp", "responseTimeMs"}

\* An input check that lets a falsy responseTimeMs through.
InputErrorLax(req) ==
  IF "nonce" \in req.bad THEN "Invalid nonce format"
  ELSE IF "publicId" \in req.bad THEN "Invalid publicId format"
  ELSE IF "signature" \in req.bad THEN "Invalid signature format"
  ELSE IF "publicKey" \in req.bad THEN "Invalid publicKey format"
  ELSE IF "timestamp" \in req.bad THEN "Invalid timestamp"
  ELSE "none"

\* Check 0: the first field that fails its format test, in the code's order.
\* req.bad holds the fields that are missing or of the wrong type or length;
\* responseTimeMs is also rejected when it is 0 (falsy) or negative.
InputError(req) ==
  IF "nonce" \in req.bad THEN "Invalid nonce format"
  ELSE IF "publicId" \in req.bad THEN "Invalid publicId format"
  ELSE IF "signature" \in req.bad THEN "Invalid signature format"
  ELSE IF "publicKey" \in req.bad THEN "Invalid publicKey format"
  ELSE IF "timestamp" \in req.bad THEN "Invalid timestamp"
  ELSE IF "responseTimeMs" \in req.bad \/ req.responseTimeMs <= 0
       THEN "Invalid responseTimeMs"
  ELSE "none"

\* res.status(status).json({ verified, error, checks, batchResult })
Respond(status, verified, error, checks, batchResult) ==
  [status |-> status, json |-> TRUE, verified |-> verified, error |-> error,
   checks |-> checks, batchResult |-> batchResult]

\* The handler threw: no body of the handler's own is sent.
Unhandled(checks) ==
  [status |-> 500, json |-> FALSE, verified |-> FALSE, error |-> "unhandled",
   checks |-> checks, batchResult |-> NoBatchResult]

\* The catch block: onFailed is called again, then the 500 body is sent.
\* cb[2] says that this second call throws too.
Caught(checks, cb) ==
  IF cb[2] THEN Unhandled(checks)
  ELSE Respond(500, FALSE, "Verification error", checks, NoBatchResult)

\* A failed check that answers without res.status(400).
FailNoStatus(error, checks, batchResult, cb) ==
  IF cb[1] THEN Caught(checks, cb)
  ELSE Respond(200, FALSE, error, checks, batchResult)

\* A failed check: onFailed is called inside the try block (cb[1] says that
\* it throws), then the 400 body is sent.
Fail(error, checks, batchResult, cb) ==
  IF cb[1] THEN Caught(checks, cb)
  ELSE Respond(400, FALSE, error, checks, batchResult)

\* What one check saw of the ledger when it ran.
Saw(L, n, name) == <<[check |-> name, present |-> Has(L, n)]>>

\* The outcome of one run of a handler.
Outcome(L, r, found, observed) ==
  [challenges |-> L, res |-> r, found |-> found, observed |-> observed]

\* router.post('/verify'): t1 is Date.now() at the expiry check, t2 the one
\* at the timing check.
VerifyHandler(L, mpc, req, t1, t2, cb) ==
  LET n  == req.nonce
      ie == InputError(req)
      c1 == Passed(NoChecks, "inputValid")
      c2 == Passed(c1, "challengeExists")
      c3 == Passed(c2, "notExpired")
      c4 == Passed(c3, "solutionsExist")
      c5 == Passed(c4, "solutionsValid")
      c6 == Passed(c5, "responseTimeValid")
      c7 == Passed(c6, "signatureValid")
  IN
  IF ie # "none"
  THEN Outcome(L, Respond(400, FALSE, ie, NoChecks, NoBatchResult), FALSE, <<>>)
  ELSE IF ~Has(L, n)
  THEN Outcome(L, Fail("Challenge not found or already used", c1, NoBatchResult, cb),
               FALSE, <<>>)
  ELSE
  LET challenge == Get(L, n)
      o2 == Saw(L, n, "notExpired")
  IN
  IF IsExpired(t1, challenge)
  THEN Outcome(ConsumeExpired(L, n), Fail("Challenge expired", c2, NoBatchResult, cb),
               TRUE, o2)
  ELSE
  LET L1 == Consume(L, n)
      o3 == o2 \o Saw(L1, n, "solutionsExist")
      \* a single-mode entry has no batchSize: size is undefined
      sizeOk == /\ req.isArray
                /\ challenge.mode = "batch"
                /\ Len(req.solutions) = challenge.batchSize
  IN
  IF ~sizeOk
  THEN Outcome(L1, Fail("Expected size solutions", c3, NoBatchResult, cb), TRUE, o3)
  ELSE
  LET size == challenge.batchSize
      batchResult == validateBatch(challenge.validators, req.solutions)
      requiredPass == RequiredPass(mpc, size)
      o4 == o3 \o Saw(L1, n, "solutionsValid")
  IN
  IF batchResult.passed < requiredPass
  THEN Outcome(L1, Fail("Proof of Intelligence failed", c4, batchResult, cb), TRUE, o4)
  ELSE
  LET serverResponseTime == t2 - challenge.timestamp
      effectiveResponseTime == EffectiveResponseTime(req.responseTimeMs, serverResponseTime)
      o5 == o4 \o Saw(L1, n, "responseTimeValid")
  IN
  IF effectiveResponseTime > maxResponseTimeMs
  THEN Outcome(L1, Fail("Response too slow", c5, NoBatchResult, cb), TRUE, o5)
  ELSE
  LET proofData == createProofData(n, JSONstringify(req.solutions),
                                   req.publicId, req.timestamp)
      o6 == o5 \o Saw(L1, n, "signatureValid")
  IN
  IF ~verify(proofData, req.signature, req.publicKey)
  THEN Outcome(L1, Fail("Invalid signature (Proof of Identity failed)", c6,
                        NoBatchResult, cb), TRUE, o6)
  ELSE IF cb[1]
  THEN Outcome(L1, Caught(c7, cb), TRUE, o6)
  ELSE Outcome(L1, Respond(200, TRUE, "", c7, batchResult), TRUE, o6)

\* ---------------------------------------------------------------- POST /verify/single
SingleCheckNames ==
  {"challengeExists", "notExpired", "solutionExists", "solutionValid",
   "responseTimeValid", "signatureValid"}

NoSingleChecks == [c \in SingleCheckNames |-> FALSE]

\* responseTimeMs > 10000; an omitted responseTimeMs is undefined and
\* undefined > 10000 is false.
SingleTooSlow(req) == req.hasResponseTime /\ req.responseTimeMs > singleMaxResponseTimeMs

\* A lookup that takes an entry of either mode.
SingleFoundAnyMode(L, n) == Has(L, n)

\* challenge && challenge.mode === 'single'
SingleFound(L, n) == Has(L, n) /\ Get(L, n).mode = "single"

\* router.post('/verify/single'): t is its one Date.now().
VerifySingleHandler(L, req, t) ==
  LET n  == req.nonce
      c1 == Passed(NoSingleChecks, "challengeExists")
      c2 == Passed(c1, "notExpired")
      c3 == Passed(c2, "solutionExists")
      c4 == Passed(c3, "solutionValid")
      c5 == Passed(c4, "responseTimeValid")
      c6 == Passed(c5, "signatureValid")
      R(status, verified, error, checks) ==
        Respond(status, verified, error, checks, NoBatchResult)
  IN
  IF ~SingleFound(L, n)
  THEN Outcome(L, R(400, FALSE, "Single challenge not found", NoSingleChecks), FALSE, <<>>)
  ELSE
  LET challenge == Get(L, n)
      L1 == Delete(L, n)
      o1 == Saw(L1, n, "notExpired")
      o2 == o1 \o Saw(L1, n, "solutionExists")
      o3 == o2 \o Saw(L1, n, "solutionValid")
      o4 == o3 \o Saw(L1, n, "responseTimeValid")
      o5 == o4 \o Saw(L1, n, "signatureValid")
  IN
  IF IsExpired(t, challenge)
  THEN Outcome(L1, R(400, FALSE, "Challenge expired", c1), TRUE, o1)
  ELSE IF req.solution = 0
  THEN Outcome(L1, R(400, FALSE, "Missing solution", c2), TRUE, o2)
  ELSE IF ~Validator(challenge.validate, req.solution)
  THEN Outcome(L1, R(400, FALSE, "Invalid solution", c3), TRUE, o3)
  ELSE IF SingleTooSlow(req)
  THEN Outcome(L1, R(400, FALSE, "Too slow", c4), TRUE, o4)
  ELSE IF ~verify(createProofData(n, req.solution, req.publicId, req.timestamp),
                  req.signature, req.publicKey)
  THEN Outcome(L1, R(400, FALSE, "Invalid signature", c5), TRUE, o5)
  ELSE Outcome(L1, R(200, TRUE, "", c6), TRUE, o5)

\* ---------------------------------------------------------------- requests
\* The three ways a request is signed: over its own fields with its own
\* key, over a solutions value other than the submitted one, or with the
\* private key of another key pair.
SigKinds == {"own", "tampered", "otherkey"}

Signature(kind, nonce, solution, altered, publicId, timestamp, key) ==
  CASE kind = "own"      -> sign(createProofData(nonce, solution, publicId, timestamp), key)
    [] kind = "tampered" -> sign(createProofData(nonce, altered, publicId, timestamp), key)
    [] kind = "otherkey" -> sign(createProofData(nonce, solution, publicId, timestamp),
                                 CHOOSE k \in Keys : k # key)

\* An answer the validator of challenge i of nonce n rejects.
Wrong(n, i) == 3 - Expected(n, i)

\* The solutions arrays a client sends for nonce n: the right answers with
\* any of the first two replaced by a wrong one or the first by a falsy one,
\* and arrays that are one short, one long, or empty.
SolutionArrays(n) ==
  LET right == generateBatch(n, batchSize)
  IN {s \in [1..batchSize -> Answers] :
        /\ \A i \in 1..batchSize : i > 2 => s[i] = right[i]
        /\ \A i \in 1..batchSize : s[i] = 0 => i = 1 /\ s = [right EXCEPT ![1] = 0]}
     \cup {<<>>, SubSeq(right, 1, batchSize - 1), right \o <<1>>}

\* A POST /verify body.
VerifyRequest(n, isArray, sols, rt, kind, bad) ==
  [nonce |-> n, isArray |-> isArray, solutions |-> sols, responseTimeMs |-> rt,
   publicId |-> 1, timestamp |-> 1, publicKey |-> 1, bad |-> bad,
   signature |-> Signature(kind, n, JSONstringify(sols),
                           JSONstringify(sols \o <<1>>), 1, 1, 1)]

\* The proof of an honest prover for nonce n that reports rt.
HonestRequest(n, rt) ==
  VerifyRequest(n, TRUE, generateBatch(n, batchSize), rt, "own", {})

\* Bodies with one malformed field (or all of them), otherwise those of an
\* honest proof; and bodies whose responseTimeMs is 0 or negative.
MalformedRequests(n) ==
  {VerifyRequest(n, TRUE, generateBatch(n, batchSize), 1, "own", bad) :
     bad \in {{f} : f \in Fields} \cup {Fields}}
  \cup
  {HonestRequest(n, rt) : rt \in {0 - 1, 0}}

\* Every body that passes the input check, for nonce n.
WellFormedRequests(n) ==
  {VerifyRequest(n, TRUE, sols, rt, kind, {}) :
     sols \in SolutionArrays(n), rt \in 1..(maxResponseTimeMs + 1),
     kind \in {"own", "tampered"}}
  \cup {VerifyRequest(n, FALSE, <<>>, 1, "own", {}),
        VerifyRequest(n, TRUE, generateBatch(n, batchSize), 1, "otherkey", {})}

\* The nonces a client can name: 0 is a well-formed nonce the server never
\* issued, the others have been issued.
KnownNonces(next) == 0..(next - 1)

\* The requests of the ledger specification: per nonce an honest proof, a
\* proof with one wrong answer, and bodies with a malformed nonce, a
\* malformed signature or a zero responseTimeMs.
LedgerRequests(next) ==
  UNION {{HonestRequest(n, 1), HonestRequest(n, 0),
          VerifyRequest(n, TRUE, [generateBatch(n, batchSize) EXCEPT ![1] = Wrong(n, 1)],
                        1, "own", {}),
          VerifyRequest(n, TRUE, generateBatch(n, batchSize), 1, "own", {"nonce"}),
          VerifyRequest(n, TRUE, generateBatch(n, batchSize), 1, "own", {"signature"})}
         : n \in KnownNonces(next)}

\* The requests of the checks specification: every body for an issued
\* nonce, and an honest and a malformed one for an unknown nonce.
CheckRequests(next) ==
  UNION {WellFormedRequests(n) \cup MalformedRequests(n) : n \in 1..(next - 1)}
  \cup {HonestRequest(0, 1), HonestRequest(0, 0)}

\* A POST /verify/single body.
SingleRequest(n, sol, has, rt, kind) ==
  [nonce |-> n, solution |-> sol, hasResponseTime |-> has, responseTimeMs |-> rt,
   publicId |-> 1, timestamp |-> 1, publicKey |-> 1,
   signature |-> Signature(kind, n, sol, 0, 1, 1, 1)]

\* Per nonce: every answer, signed or tampered, reporting a fast time; and the
\* right answer reporting a slow time or none.
SingleRequests(next) ==
  UNION {{SingleRequest(n, sol, TRUE, 1, kind) :
            sol \in Answers, kind \in {"own", "tampered"}}
         \cup {SingleRequest(n, generateChallenge(n), TRUE, singleMaxResponseTimeMs + 1, "own"),
               SingleRequest(n, generateChallenge(n), FALSE, 0, "own")}
         : n \in KnownNonces(next)}

\* Per nonce: the right answer reporting a fast time, a slow one or none,
\* and a wrong answer.
LedgerSingleRequests(next) ==
  UNION {{SingleRequest(n, generateChallenge(n), TRUE, 1, "own"),
          SingleRequest(n, generateChallenge(n), TRUE, singleMaxResponseTimeMs + 1, "own"),
          SingleRequest(n, generateChallenge(n), FALSE, 0, "own"),
          SingleRequest(n, Wrong(n, 0), TRUE, 1, "own")}
         : n \in KnownNonces(next)}

NoRequest == [nonce |-> 0]

\* ---------------------------------------------------------------- generator
\* A nonce is a string of hex digits; the positions the generators read are
\* scaled to the modelled length.
GenNonces == [1..NonceLen -> 0..(Radix - 1)]

\* nonce.slice(offset, offset + width)
slice(nonce, offset, width) ==
  SubSeq(nonce, Min(offset, Len(nonce)) + 1, Min(offset + width, Len(nonce)))

RECURSIVE parseInt(_)
\* parseInt(digits, 16)
parseInt(digits) ==
  IF digits = <<>> THEN 0
  ELSE parseInt(SubSeq(digits, 1, Len(digits) - 1)) * Radix + digits[Len(digits)]

\* seededNumber(nonce, offset, min, max)
seededNumber(nonce, offset, min, max) ==
  (parseInt(slice(nonce, offset, SeedWidth)) % (max - min + 1)) + min

\* generateSalt(nonce, offset)
generateSalt(nonce, offset) == slice(nonce, offset, SaltWidth)

\* getTypes(): two of the eight challenge types.
getTypes == <<"nlp_logic", "nlp_multistep">>

Types == {getTypes[i] : i \in 1..Len(getTypes)}

\* String.prototype.toUpperCase on the answer texts.
toUpperCase(text) ==
  CASE text = "no"    -> "NO"
    [] text = "small" -> "SMALL"
    [] OTHER          -> text

\* CHALLENGE_TYPES.nlp_logic.generate(nonce): the challenge text is given
\* by its salt, its template and its numbers; the validator closes over
\* the salt and the template's answer.
nlp_logic(nonce) ==
  LET salt == generateSalt(nonce, 3)
      a == seededNumber(nonce, 0, 10, 100)
      b == seededNumber(nonce, 1, 10, 100)
      threshold == seededNumber(nonce, 2, 20, 80)
      template == parseInt(slice(nonce, 3, 1)) % 3
      answer ==
        CASE template = 0 -> IF Max(a, b) > threshold THEN "YES" ELSE "NO"
          [] template = 1 -> IF a + b < threshold * 2 THEN "SMALL" ELSE "LARGE"
          [] OTHER        -> IF a % 2 = 0 /\ b % 2 = 1 THEN "MIXED" ELSE "SAME"
  IN [challenge_string |-> <<salt, template, a, b, threshold>>,
      validate |-> [kind |-> "answer", salt |-> salt, answer |-> answer, result |-> 0]]

\* CHALLENGE_TYPES.nlp_multistep.generate(nonce)
nlp_multistep(nonce) ==
  LET salt == generateSalt(nonce, 1)
      numbers == [i \in 1..4 |-> seededNumber(nonce, i - 1, 1, 9)]
      sum == numbers[1] + numbers[2] + numbers[3] + numbers[4]
      min == Min(Min(numbers[1], numbers[2]), Min(numbers[3], numbers[4]))
      max == Max(Max(numbers[1], numbers[2]), Max(numbers[3], numbers[4]))
      final == sum * min - max
  IN [challenge_string |-> <<salt, 3>> \o numbers,
      validate |-> [kind |-> "result", salt |-> salt, answer |-> "", result |-> final]]

\* CHALLENGE_TYPES[type].generate(nonce)
CHALLENGE_TYPES(type, nonce) ==
  IF type = "nlp_logic" THEN nlp_logic(nonce) ELSE nlp_multistep(nonce)

\* A generator that picks the type at random whatever type is asked for.
generateAnyType(nonce, type, random) ==
  LET result == CHALLENGE_TYPES(getTypes[random], nonce)
  IN [type |-> getTypes[random], challenge_string |-> result.challenge_string,
      validate |-> result.validate]

\* generate(nonce, type): `random` is Math.floor(Math.random() *
\* types.length) + 1, read only when type is not a known type.
generate(nonce, type, random) ==
  LET selectedType == IF type \in Types THEN type ELSE getTypes[random]
      result == CHALLENGE_TYPES(selectedType, nonce)
  IN [type |-> selectedType, challenge_string |-> result.challenge_string,
      validate |-> result.validate]

\* A solution text: one without a JSON object, or an object with a salt
\* and an answer or a result.
NoJson == [json |-> FALSE, salt |-> <<>>, answer |-> "", result |-> 0]

Solutions(nonce) ==
  {NoJson} \cup
  {[json |-> TRUE, salt |-> salt, answer |-> answer, result |-> result] :
     salt \in {generateSalt(nonce, 3), generateSalt(nonce, 1), <<>>},
     answer \in {"", "YES", "NO", "no", "SMALL", "small", "SAME"},
     result \in {0, nlp_multistep(nonce).validate.result}}

\* A validator closure applied to a solution text.
ApplyValidator(v, solution) ==
  /\ solution.json
  /\ solution.salt = v.salt
  /\ IF v.kind = "answer"
     THEN solution.answer # "" /\ toUpperCase(solution.answer) = toUpperCase(v.answer)
     ELSE solution.result = v.result

\* validate(type, nonce, solution)
validate(type, nonce, solution) ==
  IF type \notin Types THEN FALSE
  ELSE ApplyValidator(CHALLENGE_TYPES(type, nonce).validate, solution)

\* No call was made yet.
NotGenerated ==
  [stage |-> "none", nonce |-> <<>>, type |-> "", first |-> <<>>, second |-> <<>>,
   solution |-> NoJson, verdict |-> FALSE]

\* ---------------------------------------------------------------- validator calls
\* The values a validator closure of challenges.js is called with: a value
\* that is not a string, a string whose braces do not hold JSON, and the
\* solution texts (without JSON, or with a JSON object).
AnswerValues(nonce) ==
  {[kind |-> "nonstring", body |-> NoJson], [kind |-> "malformed", body |-> NoJson]}
  \cup {[kind |-> "string", body |-> solution] : solution \in Solutions(nonce)}

\* The statements inside the try block of a validator: solution.match
\* raises on a value that is not a string, JSON.parse raises on text that
\* is not JSON; otherwise the salt and the field are compared.
validatorBody(v, value) ==
  CASE value.kind = "nonstring" -> "raise"
    [] value.kind = "malformed" -> "raise"
    [] OTHER -> IF ApplyValidator(v, value.body) THEN "true" ELSE "false"

\* A validator without its catch block.
tryNoCatch(outcome) == outcome

\* try { ... } catch { return false; }
tryCatch(outcome) == IF outcome = "raise" THEN "false" ELSE outcome

\* validate(solution) of a challenge of challenges.js
callValidator(v, value) == tryCatch(validatorBody(v, value))

\* TYPES of the WebSocket server: two of the seven generators.
TYPES == <<"math", "logic">>

\* createHash('sha256').update(nonce + index).digest('hex').slice(0, 6):
\* a digest is given by what was hashed.
wsSalt(nonce, index) == <<"sha256", nonce, index>>

\* parseInt(nonce.slice(index * 2, index * 2 + 8), 16) || (index * 17)
wsSeed(nonce, index) ==
  LET seed == parseInt(slice(nonce, index * 2, SeedWidth))
  IN IF seed # 0 THEN seed ELSE index * 17

\* GENERATORS.math(salt, seed)
math(salt, seed) ==
  LET a == 10 + (seed % 90)
      b == 10 + ((seed * 7) % 90)
      op == seed % 3
      answer == IF op = 0 THEN a + b ELSE IF op = 1 THEN a - b ELSE a * b
  IN [q |-> <<salt, a, op, b>>,
      v |-> [kind |-> "result", salt |-> salt, answer |-> "", result |-> answer]]

\* GENERATORS.logic(salt, seed)
logic(salt, seed) ==
  LET x == 10 + (seed % 50)
      y == 10 + ((seed * 3) % 50)
      answer == IF x > y THEN "GREATER" ELSE IF x < y THEN "LESS" ELSE "EQUAL"
  IN [q |-> <<salt, x, y>>,
      v |-> [kind |-> "answer", salt |-> salt, answer |-> answer, result |-> 0]]

\* generateChallenge(nonce, index) of the WebSocket server
wsGenerateChallenge(nonce, index) ==
  LET type == TYPES[(index % Len(TYPES)) + 1]
      salt == wsSalt(nonce, index)
      seed == wsSeed(nonce, index)
      g == IF type = "math" THEN math(salt, seed) ELSE logic(salt, seed)
  IN [type |-> type, challenge |-> g.q, validate |-> g.v]

\* The values msg.answer can hold: no value, null, a string or number, and
\* objects with or without the salt and the field.
WsAnswerValues(nonce, index) ==
  {[kind |-> k, body |-> NoJson] : k \in {"undefined", "null", "primitive"}}
  \cup
  {[kind |-> "object",
    body |-> [json |-> TRUE, salt |-> salt, answer |-> answer, result |-> result]] :
     salt \in {wsSalt(nonce, index), wsSalt(nonce, index + 1), <<>>},
     answer \in {"", "GREATER", "LESS", "EQUAL", "less"},
     result \in {0, math(wsSalt(nonce, index), wsSeed(nonce, index)).v.result}}

\* v: (r) => r?.salt === salt && r?.<field> === answer.  On undefined and
\* null the optional chain yields undefined; a string or a number has no
\* such property.
callGeneratorValidator(v, r) ==
  IF r.kind # "object" THEN "false"
  ELSE IF /\ r.body.salt = v.salt
          /\ IF v.kind = "answer" THEN r.body.answer = v.answer
             ELSE r.body.result = v.result
       THEN "true" ELSE "false"

\* No validator was called yet.
NoCheck ==
  [family |-> "none", nonce |-> <<>>, type |-> "", issuedSalt |-> <<>>,
   validate |-> NoJson, value |-> [kind |-> "none", body |-> NoJson],
   outcome |-> "none"]

\* ---------------------------------------------------------------- generateBatch
\* Object.keys(CHALLENGE_TYPES) of the example batch server (unnamed/part_008)
exampleTypes ==
  <<"nlp_math", "nlp_extract", "nlp_logic", "nlp_multistep", "nlp_transform">>

\* BATCH_SIZE of the example batch server
EXAMPLE_BATCH_SIZE == 3

\* The two generateBatch functions: the packaged generator (challenges.js)
\* and the one of the example batch server.
Variants == {"packaged", "example"}

\* const types = getTypes() / Object.keys(CHALLENGE_TYPES)
typesOf(variant) == IF variant = "packaged" THEN getTypes ELSE exampleTypes

\* nonce.slice(i * 2) + nonce.slice(0, i * 2)
offsetNonce(nonce, i) ==
  slice(nonce, i * 2, Len(nonce)) \o slice(nonce, 0, i * 2)

\* The body of the do-while loop: the seed is parsed from the rotated nonce;
\* the packaged generator adds its attempts counter, the example has none.
selectType(variant, nonce, i, attempts) ==
  LET types == typesOf(variant)
      seed == parseInt(slice(offsetNonce(nonce, i), 0, SeedWidth))
  IN types[((seed + i * 3 + (IF variant = "packaged" THEN attempts ELSE 0))
              % Len(types)) + 1]

\* A loop condition that never asks for another type.
loopConditionNever(variant, usedTypes, selectedType) == FALSE

\* while (usedTypes.has(selectedType) && usedTypes.size < types.length)
loopCondition(variant, usedTypes, selectedType) ==
  /\ selectedType \in usedTypes
  /\ Cardinality(usedTypes) < Len(typesOf(variant))

\* The generator of a type applied to the rotated nonce.  The generators of
\* the example server are pure functions of the nonce as well; of their
\* result only the type and the nonce it was derived from are kept.
generatorOf(variant, type, nonce) ==
  IF variant = "packaged" THEN CHALLENGE_TYPES(type, nonce)
  ELSE [challenge_string |-> <<type, nonce>>, validate |-> <<type, nonce>>]

\* generateBatch was not called yet.
NotCalled ==
  [pc |-> "idle", variant |-> "", nonce |-> <<>>, count |-> 0, i |-> 0,
   attempts |-> 0, selectedType |-> "", usedTypes |-> {}, challenges |-> <<>>,
   validators |-> <<>>]

\* ---------------------------------------------------------------- state
VARIABLES
  challenges,    \* the ledger: the `challenges` Map, in insertion order
  minPassCount,  \* options.minPassCount
  now,           \* Date.now()
  nextNonce,     \* the next value of generateNonce()
  endpoint,      \* the route of the last request
  request,       \* the body of the last request
  res,           \* the response to the last request
  run,           \* what the last handler did: lookup result, clock reads
  issued,        \* per nonce: the mode and time it was issued with
  found,         \* per nonce: POST /verify requests that got the entry
  verifiedTimes  \* per nonce: POST /verify responses with verified = true

\* The WebSocket verifier (createAAPWebSocket): one connection.
VARIABLES
  session,         \* the session object of the connection
  timers,          \* the pending setTimeout timers, in creation order
  readyState,      \* ws.readyState
  verifiedTokens,  \* the verifiedTokens Map, in insertion order
  wsNow,           \* Date.now() of the WebSocket server
  crashed,         \* an exception left a message handler or a timer callback
  inbound,         \* the event the last step handled
  outbound,        \* the messages the last step sent
  finished,        \* the calls of finishSession so far
  calls,           \* how often onVerified and onFailed were invoked
  connFired,       \* the connection deadline timer has fired
  received,        \* number of inbound frames so far
  lastSend,        \* per challenge index: when it was last sent, or -1
  accepted         \* per recorded answer: when it arrived and was timed from

\* The challenge generator (challenges.js): one (nonce, type) pair.
VARIABLES
  gen,             \* the calls of generate and validate made for the pair
  batch,           \* one call of generateBatch: its locals and its position
  query,           \* the last call of isVerified and what it returned
  check            \* the last call of a validator closure and how it ended

httpVars ==
  <<challenges, minPassCount, now, nextNonce, endpoint, request, res, run,
    issued, found, verifiedTimes>>

wsVars ==
  <<session, timers, readyState, verifiedTokens, wsNow, crashed, inbound,
    outbound, finished, calls, connFired, received, lastSend, accepted>>

genVars == <<gen, batch, query, check>>

vars == <<httpVars, wsVars, genVars>>

\* ---------------------------------------------------------------- websocket
\* The WebSocket verifier follows unnamed/part_002 (AAP WebSocket Server
\* v3.0).  A server value S carries the fields a handler reads and writes;
\* each handler and each timer callback is synchronous and is one action.

\* The answer the validator of challenge `index` accepts.
WsExpected(index) == 1 + (index % 2)

\* challenges[index].validate(answer)
WsValidate(index, answer) == answer = WsExpected(index)

\* session.challengeStart === null
Null == 0 - 1

\* 'anon-' + randomBytes(4).toString('hex')
AnonId == 9

\* The session object the connection handler builds.
NewSession(t) ==
  [nonce |-> 1, startTime |-> t, current |-> 0, answers |-> <<>>,
   timings |-> <<>>, publicId |-> Null, challengeStart |-> Null]

\* A pending timer: `held` says that session.timer (kind "challenge") or
\* session.connTimer (kind "conn") still holds its handle; the timers of the
\* delayed next challenge and of the delayed close have no handle.  `id` is
\* the challenge index the callback of a per-challenge timer closed over.
Timer(kind, due, held, id) ==
  [kind |-> kind, due |-> due, held |-> held, id |-> id]

\* setTimeout(...) assigned to a field of the session: the handle the field
\* held before is dropped, its timer stays pending.
setHeldTimeout(T, kind, due, id) ==
  [i \in 1..Len(T) |->
     IF T[i].kind = kind THEN [T[i] EXCEPT !.held = FALSE] ELSE T[i]]
  \o <<Timer(kind, due, TRUE, id)>>

\* setTimeout(...) whose handle is not kept.
setTimeout(T, kind, due) == Append(T, Timer(kind, due, FALSE, Null))

\* clearTimeout(session.timer) / clearTimeout(session.connTimer)
clearTimeout(T, kind) == SelectSeq(T, LAMBDA x : ~(x.kind = kind /\ x.held))

\* cleanup(session)
cleanupSession(T) == clearTimeout(clearTimeout(T, "challenge"), "conn")

\* send(ws, data): a frame goes out only while the socket is open.
send(S, data) ==
  IF S.readyState = "OPEN" THEN [S EXCEPT !.outbound = Append(@, data)] ELSE S

\* ws.close()
close(S) ==
  IF S.readyState = "OPEN" THEN [S EXCEPT !.readyState = "CLOSING"] ELSE S

Frame(type, id, code, verified) ==
  [verified |-> verified, type |-> type, id |-> id, code |-> code]

ErrorFrame(code) == Frame("error", Null, code, FALSE)

\* finishSession(session, success, message, options, passed).  `options`
\* says whether the caller passed its options (the callbacks and the
\* verifiedTokens Map); the timer callbacks pass an empty object.
finishSession(S, success, message, withCallbacks, t) ==
  LET T == cleanupSession(S.timers)
      S1 == [S EXCEPT
               !.timers = setTimeout(T, "close", t + closeDelayMs),
               !.finished = Append(@, [verified |-> success, message |-> message,
                                       open |-> S.readyState = "OPEN", at |-> t,
                                       answers |-> S.session.answers]),
               !.verifiedTokens =
                  IF success /\ withCallbacks
                  THEN Append(@, [publicId |-> S.session.publicId,
                                  nonce |-> S.session.nonce, verifiedAt |-> t,
                                  expiresAt |-> t + tokenTtlMs])
                  ELSE @,
               !.calls =
                  IF ~withCallbacks THEN @
                  ELSE IF success THEN [@ EXCEPT !.onVerified = Min(@ + 1, 2)]
                  ELSE [@ EXCEPT !.onFailed = Min(@ + 1, 2)]]
  IN send(S1, Frame("result", Null, "", success))

\* sendNextChallenge(session, timePerChallengeMs).  With current past the
\* last challenge, challenges[current] is undefined and reading its
\* `challenge` throws after challengeStart was assigned.
sendNextChallenge(S, t) ==
  LET current == S.session.current
      S1 == [S EXCEPT !.session.challengeStart = t]
  IN IF current >= challengeCount
     THEN [S1 EXCEPT !.crashed = TRUE]
     ELSE LET S2 == send(S1, Frame("challenge", current, "", FALSE))
          IN [S2 EXCEPT
                !.lastSend[current] = IF S.readyState = "OPEN" THEN t ELSE @,
                !.timers = setHeldTimeout(@, "challenge",
                                          t + timePerChallengeMs + challengeGraceMs,
                                          current)]

\* A limit that already rejects an answer at the last instant.
TooSlowAtLimit(elapsed) == elapsed >= timePerChallengeMs

\* elapsed > timePerChallengeMs
TooSlow(elapsed) == elapsed > timePerChallengeMs

\* A count that takes every recorded answer for a valid one.
PassedCountLax(answers) == Len(answers)

\* const passed = answers.filter((a, i) => challenges[i].validate(a)).length
PassedCount(answers) ==
  Cardinality({i \in 1..Len(answers) :
                 i <= challengeCount /\ WsValidate(i - 1, answers[i])})

\* handleMessage, case 'ready'
handleReady(S, msg, t) ==
  IF S.session.current # 0
  THEN send(S, ErrorFrame("ALREADY_STARTED"))
  ELSE sendNextChallenge(
         [S EXCEPT !.session.publicId =
                     IF msg.publicId # 0 THEN msg.publicId ELSE AnonId], t)

\* handleMessage, case 'answer'.  With current past the last challenge the
\* answer and its timing are pushed and challenges[current].validate throws.
handleAnswer(S, msg, t) ==
  IF S.session.challengeStart = Null
  THEN send(S, ErrorFrame("NO_CHALLENGE"))
  ELSE
    LET current == S.session.current
        elapsed == t - S.session.challengeStart
        S1 == [S EXCEPT !.timers = clearTimeout(@, "challenge")]
    IN IF TooSlow(elapsed)
       THEN finishSession(S1, FALSE, "Too slow", TRUE, t)
       ELSE
         LET S2 == [S1 EXCEPT
                      !.session.answers = Append(@, msg.answer),
                      !.session.timings = Append(@, elapsed),
                      !.accepted =
                         Append(@, [index |-> current, at |-> t,
                                    from |-> IF current < challengeCount
                                             THEN S.lastSend[current] ELSE Null])]
         IN IF current >= challengeCount
            THEN [S2 EXCEPT !.crashed = TRUE]
            ELSE
              LET S3 == send(S2, [Frame("ack", current, "", FALSE) EXCEPT
                                    !.verified = WsValidate(current, msg.answer)])
                  S4 == [S3 EXCEPT !.session.current = @ + 1]
              IN IF S4.session.current < challengeCount
                 THEN [S4 EXCEPT !.timers =
                         setTimeout(@, "next", t + nextChallengeDelayMs)]
                 ELSE LET success ==
                            PassedCount(S4.session.answers) = challengeCount
                      IN finishSession(
                           S4, success,
                           IF success THEN "All challenges passed" ELSE "Failed",
                           TRUE, t)

\* ws.on('message'): JSON.parse, then handleMessage.  The frame `null` is
\* JSON, and handleMessage throws on reading msg.type of it.
onMessage(S, msg, t) ==
  CASE msg.type = "invalid" -> send(S, ErrorFrame("INVALID_JSON"))
    [] msg.type = "null"    -> [S EXCEPT !.crashed = TRUE]
    [] msg.type = "ready"   -> handleReady(S, msg, t)
    [] msg.type = "answer"  -> handleAnswer(S, msg, t)
    [] OTHER                -> send(S, ErrorFrame("UNKNOWN_TYPE"))

\* The callback of the connection deadline timer.
onConnectionTimeout(S) ==
  [close(send(S, ErrorFrame("TIMEOUT"))) EXCEPT !.connFired = TRUE]

\* The callback of the per-challenge deadline timer.
onChallengeTimeout(S, id, t) ==
  finishSession(send(S, Frame("timeout", id, "", FALSE)),
                FALSE, "Timeout", FALSE, t)

\* ws.on('close') and ws.on('error'): cleanup(session), sessions.delete.
onClose(S) ==
  [S EXCEPT !.readyState = "CLOSED", !.timers = cleanupSession(@)]

\* An expiry test that still accepts the token at expiresAt.
isVerifiedAtExpiry(tokens, token, t) ==
  IF token \notin 1..Len(tokens) THEN "undefined"
  ELSE IF t <= tokens[token].expiresAt THEN "true" ELSE "false"

\* isVerified(token): session && Date.now() < session.expiresAt.  A token is
\* the position of its entry in the verifiedTokens Map; for a token the Map
\* does not hold, the result is undefined.
isVerified(tokens, token, t) ==
  IF token \notin 1..Len(tokens) THEN "undefined"
  ELSE IF t < tokens[token].expiresAt THEN "true" ELSE "false"

\* isVerified was not called yet.
NoQuery == [token |-> Null, result |-> "none", at |-> 0]

\* wss.on('connection'): the session, the connection deadline timer, the
\* handshake.
Connection ==
  /\ session = NewSession(0)
  /\ timers = <<Timer("conn", connectionTimeoutMs, TRUE, Null)>>
  /\ readyState = "OPEN"
  /\ verifiedTokens = <<>>
  /\ wsNow = 0
  /\ crashed = FALSE
  /\ inbound = [answer |-> 0, publicId |-> 0, type |-> "connection"]
  /\ outbound = <<Frame("handshake", Null, "", FALSE)>>
  /\ finished = <<>>
  /\ calls = [onVerified |-> 0, onFailed |-> 0]
  /\ connFired = FALSE
  /\ received = 0
  /\ lastSend = [i \in 0..(challengeCount - 1) |-> Null]
  /\ accepted = <<>>

Nonces == 1..Max(NumNonces, CapNonces)

NoEntry == [nonce |-> 0]

NoRun ==
  [found |-> FALSE, entry |-> NoEntry, t1 |-> 0, t2 |-> 0, observed |-> <<>>,
   priorFound |-> 0, left |-> FALSE]

NoResponse == Respond(200, FALSE, "", NoChecks, NoBatchResult)

InitWith(options) ==
  /\ challenges = <<>>
  /\ minPassCount \in options
  /\ now = 0
  /\ nextNonce = 1
  /\ endpoint = "none"
  /\ request = NoRequest
  /\ res = NoResponse
  /\ run = NoRun
  /\ issued = [n \in Nonces |-> [mode |-> "none", timestamp |-> 0]]
  /\ found = [n \in Nonces |-> 0]
  /\ verifiedTimes = [n \in Nonces |-> 0]
  /\ Connection
  /\ gen = NotGenerated
  /\ batch = NotCalled
  /\ query = NoQuery
  /\ check = NoCheck

\* Time passes between two requests.  A handler is synchronous: all its
\* Date.now() reads fall in the same instant.
Tick ==
  /\ now < MaxTime
  /\ now' = now + 1
  /\ UNCHANGED <<challenges, minPassCount, nextNonce, endpoint, request, res, run,
                 issued, found, verifiedTimes>>
  /\ UNCHANGED <<wsVars, genVars>>

\* The ledger entry POST /challenge stores.
BatchEntry(nonce, timestamp) ==
  [nonce |-> nonce, mode |-> "batch", batchSize |-> batchSize,
   timestamp |-> timestamp, expiresAt |-> timestamp + challengeExpiryMs,
   validators |-> generateBatch(nonce, batchSize), validate |-> 0]

\* The ledger entry POST /challenge/single stores.
SingleEntry(nonce, timestamp) ==
  [nonce |-> nonce, mode |-> "single", batchSize |-> 0,
   timestamp |-> timestamp, expiresAt |-> timestamp + challengeExpiryMs,
   validators |-> <<>>, validate |-> generateChallenge(nonce)]

\* router.post('/challenge') and router.post('/challenge/single'): sweep,
\* then issue and store.  generateNonce() never repeats a value.
Issue(route, entry, limit) ==
  /\ nextNonce <= limit
  /\ challenges' = Set(cleanup(challenges, now), entry)
  /\ run' = [NoRun EXCEPT !.t1 = now, !.t2 = now, !.entry = entry]
  /\ nextNonce' = nextNonce + 1
  /\ endpoint' = route
  /\ request' = NoRequest
  /\ res' = NoResponse
  /\ issued' = [issued EXCEPT ![entry.nonce] =
                  [mode |-> entry.mode, timestamp |-> entry.timestamp]]
  /\ UNCHANGED <<minPassCount, now, found, verifiedTimes>>
  /\ UNCHANGED <<wsVars, genVars>>

PostChallenge(limit) == Issue("challenge", BatchEntry(nextNonce, now), limit)

PostChallengeSingle(limit) ==
  Issue("challenge/single", SingleEntry(nextNonce, now), limit)

\* The callbacks of one request: <<the callback called in the try block
\* throws, the onFailed called in the catch block throws>>.
CallbackOutcomes == {<<FALSE, FALSE>>, <<TRUE, FALSE>>, <<TRUE, TRUE>>}

Bump(f, n) == IF n \in Nonces THEN [f EXCEPT ![n] = Min(@ + 1, 2)] ELSE f

\* What a verify action records of the handler's run.
Record(out, req) ==
  [found |-> out.found,
   entry |-> IF out.found THEN Get(challenges, req.nonce) ELSE NoEntry,
   t1 |-> now, t2 |-> now, observed |-> out.observed,
   priorFound |-> IF req.nonce \in Nonces THEN found[req.nonce] ELSE 0,
   left |-> Has(out.challenges, req.nonce)]

\* router.post('/verify')
PostVerify(Requests, Callbacks) ==
  \E req \in Requests, cb \in Callbacks :
    LET out == VerifyHandler(challenges, minPassCount, req, now, now, cb)
    IN /\ challenges' = out.challenges
       /\ res' = out.res
       /\ request' = req
       /\ endpoint' = "verify"
       /\ run' = Record(out, req)
       /\ found' = IF out.found THEN Bump(found, req.nonce) ELSE found
       /\ verifiedTimes' = IF out.res.verified THEN Bump(verifiedTimes, req.nonce)
                           ELSE verifiedTimes
       /\ UNCHANGED <<minPassCount, now, nextNonce, issued>>
       /\ UNCHANGED <<wsVars, genVars>>

\* router.post('/verify/single')
PostVerifySingle(Requests) ==
  \E req \in Requests :
    LET out == VerifySingleHandler(challenges, req, now)
    IN /\ challenges' = out.challenges
       /\ res' = out.res
       /\ request' = req
       /\ endpoint' = "verify/single"
       /\ run' = Record(out, req)
       /\ UNCHANGED <<minPassCount, now, nextNonce, issued, found, verifiedTimes>>
       /\ UNCHANGED <<wsVars, genVars>>

\* The ledger specification: several nonces, the default options.
Init == InitWith({[set |-> FALSE, val |-> 0]})

Next ==
  \/ Tick
  \/ PostChallenge(NumNonces)
  \/ PostChallengeSingle(NumNonces)
  \/ PostVerify(LedgerRequests(nextNonce), CallbackOutcomes)
  \/ PostVerifySingle(LedgerSingleRequests(nextNonce))

Spec == Init /\ [][Next]_vars

\* The checks specification: one nonce, every option and every request body.
InitChecks == InitWith(MinPassOptions)

NextChecks ==
  \/ Tick
  \/ PostChallenge(1)
  \/ PostChallengeSingle(1)
  \/ PostVerify(CheckRequests(nextNonce), {<<FALSE, FALSE>>, <<TRUE, FALSE>>})
  \/ PostVerifySingle(SingleRequests(nextNonce))

SpecChecks == InitChecks /\ [][NextChecks]_vars

\* The requests of the capacity specification: the proof of an honest prover
\* for the oldest nonce of the ledger, for either mode.
CapRequests(L) == {HonestRequest(L[i].nonce, 1) : i \in 1..Min(1, Len(L))}

CapSingleRequests(L) ==
  {SingleRequest(L[i].nonce, generateChallenge(L[i].nonce), TRUE, 1, "own") :
     i \in 1..Min(1, Len(L))}

\* The capacity specification: more nonces than the ledger cap, the default
\* options, honest provers, callbacks that return.
NextCap ==
  \/ Tick
  \/ PostChallenge(CapNonces)
  \/ PostChallengeSingle(CapNonces)
  \/ PostVerify(CapRequests(challenges), {<<FALSE, FALSE>>})
  \/ PostVerifySingle(CapSingleRequests(challenges))

SpecCap == Init /\ [][NextCap]_vars

TypeOK ==
  /\ now \in 0..MaxTime
  /\ nextNonce \in 1..(Max(NumNonces, CapNonces) + 1)
  /\ \A i \in 1..Len(challenges) : challenges[i].nonce \in Nonces

\* ---------------------------------------------------------------- properties
\* The last request was a POST /verify that the handler answered itself.
Verified == endpoint = "verify" /\ res.json

\* The last request was a POST /verify whose body passed the input check.
WellFormedVerify == endpoint = "verify" /\ request.bad = {} /\ request.responseTimeMs > 0

\* The last request carried the proof of an honest and fast prover.
HonestProof ==
  /\ WellFormedVerify
  /\ request.nonce \in Nonces
  /\ request = HonestRequest(request.nonce, 1)

AllChecks(checks) == \A i \in 1..Len(CheckNames) : checks[CheckNames[i]]

\* C1: single use.  Of all POST /verify requests that name one nonce, at most
\* one gets the ledger entry and at most one is answered verified = true, and
\* only a request that got the entry is verified.
C1_SingleUse ==
  \A n \in Nonces :
    /\ found[n] <= 1
    /\ verifiedTimes[n] <= found[n]

\* C1 witness: a nonce was verified once and a second honest proof for it has
\* just been turned away.
C1_Witness ==
  /\ HonestProof
  /\ verifiedTimes[request.nonce] = 1
  /\ run.priorFound = 1
  /\ ~res.verified

\* C2: replay and no retry.  Once a POST /verify has found the entry of a
\* nonce, every later well-formed POST /verify for that nonce fails with
\* challengeExists = false, and the handler's own answer is "Challenge not
\* found or already used", whatever the first attempt's outcome was.
C2_NoRetry ==
  (WellFormedVerify /\ request.nonce \in Nonces /\ run.priorFound >= 1) =>
    /\ ~res.verified
    /\ res.status # 200
    /\ ~run.found
    /\ res.checks = Passed(NoChecks, "inputValid")
    /\ res.status = 400 => res.error = "Challenge not found or already used"

\* C2 witness: the first attempt failed (the nonce was never verified) and a
\* later honest proof for the same nonce is answered "not found".
C2_Witness ==
  /\ HonestProof
  /\ run.priorFound = 1
  /\ verifiedTimes[request.nonce] = 0
  /\ res.status = 400
  /\ res.error = "Challenge not found or already used"

\* A well-formed POST /verify for a batch nonce that no POST /verify has
\* looked up before.
FirstVerify ==
  /\ WellFormedVerify
  /\ request.nonce \in Nonces
  /\ issued[request.nonce].mode = "batch"
  /\ run.priorFound = 0

IssuedExpiresAt(n) == issued[n].timestamp + challengeExpiryMs

\* C3 as stated: a first well-formed POST /verify processed after expiresAt
\* is answered "expired" (challengeExists = true, notExpired = false),
\* whatever was processed in between.
C3_ExpiredWhateverHappened ==
  (FirstVerify /\ run.t1 > IssuedExpiresAt(request.nonce)) =>
    /\ res.checks["challengeExists"]
    /\ ~res.checks["notExpired"]

\* C3 amended: a first well-formed POST /verify never verifies after
\* expiresAt; when the entry is still in the ledger the expiry check passes
\* exactly when now <= expiresAt and a failure is answered "Challenge
\* expired"; when a sweep has removed the entry the answer is "not found".
C3_ExpiryBoundary ==
  FirstVerify =>
    /\ run.t1 > IssuedExpiresAt(request.nonce) => ~res.verified /\ ~res.checks["notExpired"]
    /\ run.found =>
         /\ run.entry.expiresAt = IssuedExpiresAt(request.nonce)
         /\ res.checks["challengeExists"]
         /\ res.checks["notExpired"] <=> run.t1 <= run.entry.expiresAt
         /\ (~res.checks["notExpired"] /\ res.status = 400) => res.error = "Challenge expired"
    /\ ~run.found => ~res.checks["challengeExists"]

\* C3 witness: an honest proof arrives one instant after expiresAt, finds the
\* entry and is answered "Challenge expired".
C3_Witness ==
  /\ HonestProof
  /\ FirstVerify
  /\ run.found
  /\ run.t1 = run.entry.expiresAt + 1
  /\ res.error = "Challenge expired"

Malformed(req) == req.bad # {} \/ req.responseTimeMs <= 0

\* C5: a POST /verify with a malformed field is answered 400 with every
\* check flag false, without a ledger lookup, and leaves the ledger as it was.
C5_MalformedLeavesLedger ==
  [][(endpoint' = "verify" /\ Malformed(request')) =>
       /\ challenges' = challenges
       /\ found' = found
       /\ res'.status = 400
       /\ res'.json
       /\ ~res'.verified
       /\ res'.checks = NoChecks
       /\ ~run'.found
       /\ run'.observed = <<>>]_vars

\* C5 witness: a body with a zero responseTimeMs and an otherwise honest
\* proof named a live nonce, which is still in the ledger.
C5_Witness ==
  /\ endpoint = "verify"
  /\ request.bad = {}
  /\ request.responseTimeMs = 0
  /\ Has(challenges, request.nonce)
  /\ res.status = 400

Accepted(req) ==
  Cardinality({i \in 1..Len(req.solutions) :
                 req.solutions[i] # 0 /\ req.solutions[i] = Expected(req.nonce, i)})

\* The threshold the code applies: a falsy minPassCount means all.
CodeRequiredPass ==
  IF minPassCount.set /\ minPassCount.val > 0 THEN minPassCount.val ELSE batchSize

\* What a verified answer stands for.
ProofHolds ==
  /\ run.found
  /\ run.entry.mode = "batch"
  /\ run.t1 <= run.entry.expiresAt
  /\ request.isArray
  /\ Len(request.solutions) = batchSize
  /\ Accepted(request) >= CodeRequiredPass
  /\ request.responseTimeMs <= maxResponseTimeMs
  /\ run.t2 - run.entry.timestamp <= maxResponseTimeMs
  /\ request.signature.key = request.publicKey
  /\ request.signature.data =
       <<request.nonce, <<"json", request.solutions>>, request.publicId, request.timestamp>>

\* C7 as stated: verified = true only with all seven flags true, and every
\* answer with verified = false has a false flag.
C7_VerdictAndFlags ==
  Verified =>
    /\ res.verified => AllChecks(res.checks) /\ ProofHolds
    /\ ~res.verified => ~AllChecks(res.checks)

\* C7 amended: verified = true only with status 200, all seven flags true
\* and the proof holding; every answer of a failed check (status 400) has a
\* false flag.  (The 500 answer sent when onVerified throws after the
\* signature check has all seven flags true.)
C7_VerdictSoundness ==
  Verified =>
    /\ res.verified => res.status = 200 /\ AllChecks(res.checks) /\ ProofHolds
    /\ (~res.verified /\ res.status = 400) => ~AllChecks(res.checks)
    /\ res.status = 200 => res.verified

\* C7 witness: a verified answer, and not for the all-correct proof.
C7_Witness ==
  /\ Verified
  /\ res.verified
  /\ Accepted(request) < batchSize

\* C8: the timing check of POST /verify passes exactly when both the
\* client's responseTimeMs and the server's now - timestamp are within
\* maxResponseTimeMs.
C8_TimingUsesMax ==
  (Verified /\ res.checks["solutionsValid"]) =>
    (res.checks["responseTimeValid"] <=>
       /\ request.responseTimeMs <= maxResponseTimeMs
       /\ run.t2 - run.entry.timestamp <= maxResponseTimeMs)

\* C8 witness: the client reports a time within the limit, the server
\* measured limit + 1, and the timing check fails.
C8_Witness ==
  /\ Verified
  /\ res.checks["solutionsValid"]
  /\ request.responseTimeMs <= maxResponseTimeMs
  /\ run.t2 - run.entry.timestamp = maxResponseTimeMs + 1
  /\ ~res.checks["responseTimeValid"]

\* C9: a proof submitted when the server-measured time since issuance
\* exceeds the path's limit is rejected, on POST /verify and on POST
\* /verify/single alike.
C9_ServerTimeEnforced ==
  /\ (endpoint = "verify" /\ run.found
        /\ run.t2 - run.entry.timestamp > maxResponseTimeMs) => ~res.verified
  /\ (endpoint = "verify/single" /\ run.found
        /\ run.t1 - run.entry.timestamp > singleMaxResponseTimeMs) => ~res.verified

\* C10: the solutions check passes exactly when the number of accepted
\* answers is at least requiredPass, which is minPassCount when configured
\* and the batch size otherwise.
C10_Threshold ==
  (Verified /\ res.checks["solutionsExist"]) =>
    (res.checks["solutionsValid"] <=>
       Accepted(request) >= (IF minPassCount.set THEN minPassCount.val ELSE batchSize))

\* ---------------------------------------------------------------- websocket steps
\* The server value the handlers of one step start from.
Server ==
  [session |-> session, timers |-> timers, readyState |-> readyState,
   verifiedTokens |-> verifiedTokens, outbound |-> <<>>, finished |-> finished,
   calls |-> calls, crashed |-> crashed, connFired |-> connFired,
   lastSend |-> lastSend, accepted |-> accepted]

\* The step ends: the handler's writes and the frames it sent.
Commit(S, event) ==
  /\ session' = S.session
  /\ timers' = S.timers
  /\ readyState' = S.readyState
  /\ verifiedTokens' = S.verifiedTokens
  /\ outbound' = S.outbound
  /\ finished' = S.finished
  /\ calls' = S.calls
  /\ crashed' = S.crashed
  /\ connFired' = S.connFired
  /\ lastSend' = S.lastSend
  /\ accepted' = S.accepted
  /\ inbound' = event
  /\ UNCHANGED <<httpVars, genVars>>

Event(type, publicId, answer) ==
  [answer |-> answer, publicId |-> publicId, type |-> type]

\* A frame arrives.  The ws library emits 'message' for frames that arrive
\* while the socket is open or closing; an uncaught exception ends the
\* process.
Receive(msg) ==
  /\ ~crashed
  /\ readyState \in {"OPEN", "CLOSING"}
  /\ received < MaxMessages
  /\ received' = received + 1
  /\ wsNow' = wsNow
  /\ Commit(onMessage(Server, msg, wsNow), msg)

\* {"type":"ready"} with or without a publicId
RecvReady == \E id \in 0..1 : Receive(Event("ready", id, 0))

\* {"type":"answer","answer":...}
RecvAnswer == \E a \in 1..2 : Receive(Event("answer", 0, a))

\* a frame of another type
RecvUnknown == Receive(Event("unknown", 0, 0))

\* a frame that is not JSON
RecvInvalid == Receive(Event("invalid", 0, 0))

\* the frame `null`: JSON, but not an object
RecvNull == Receive(Event("null", 0, 0))

\* The pending timers of a kind that are due.
Due(kind) == {i \in 1..Len(timers) : timers[i].kind = kind /\ timers[i].due <= wsNow}

\* The server value of a callback of timer i: the timer is no longer pending.
Fired(i) ==
  [Server EXCEPT !.timers = SubSeq(timers, 1, i - 1) \o SubSeq(timers, i + 1, Len(timers))]

TimerStep(S, kind) ==
  /\ ~crashed
  /\ UNCHANGED <<wsNow, received>>
  /\ Commit(S, Event(kind, 0, 0))

\* session.connTimer fires.
ConnectionTimeout ==
  \E i \in Due("conn") : TimerStep(onConnectionTimeout(Fired(i)), "conn")

\* A per-challenge deadline timer fires.
ChallengeTimeout ==
  \E i \in Due("challenge") : TimerStep(onChallengeTimeout(Fired(i), timers[i].id, wsNow), "challenge")

\* The delayed sendNextChallenge runs.
NextChallenge ==
  \E i \in Due("next") : TimerStep(sendNextChallenge(Fired(i), wsNow), "next")

\* The delayed ws.close() runs.
DelayedClose ==
  \E i \in Due("close") : TimerStep(close(Fired(i)), "close")

\* The socket's 'close' (or 'error') event: the peer went away or the
\* closing handshake ended.
SocketClose ==
  /\ readyState # "CLOSED"
  /\ TimerStep(onClose(Server), "closed")

\* A millisecond passes; a timer that is due runs before the clock moves on.
WsTick ==
  /\ ~crashed
  /\ wsNow < WsMaxTime
  /\ \A i \in 1..Len(timers) : timers[i].due > wsNow
  /\ wsNow' = wsNow + 1
  /\ UNCHANGED <<session, timers, readyState, verifiedTokens, crashed, inbound,
                 outbound, finished, calls, connFired, received, lastSend,
                 accepted>>
  /\ UNCHANGED <<httpVars, genVars>>

NextWs ==
  \/ WsTick
  \/ RecvReady
  \/ RecvAnswer
  \/ RecvUnknown
  \/ RecvInvalid
  \/ RecvNull
  \/ ConnectionTimeout
  \/ ChallengeTimeout
  \/ NextChallenge
  \/ DelayedClose
  \/ SocketClose

SpecWs == Init /\ [][NextWs]_vars

\* ---------------------------------------------------------------- capacity
\* C11: after any sequence of POST /challenge, POST /challenge/single and
\* verify requests the ledger holds at most MAX_CHALLENGES entries.
C11_LedgerWithinCap == Len(challenges) <= MAX_CHALLENGES

\* The bound the code keeps: the sweep runs before the new entry is stored.
C11_LedgerWithinCapPlusOne == Len(challenges) <= MAX_CHALLENGES + 1

\* The entries of the ledger L that were live at time t and that the sweep
\* of the issuing request did not keep in L2.
Evicted(L, L2, t) ==
  {i \in 1..Len(L) : ~IsExpired(t, L[i]) /\ ~Has(L2, L[i].nonce)}

\* The last step was an issuing request.
IssueStep == nextNonce' = nextNonce + 1

\* C12: when the sweep of an issuing request evicts live entries, every
\* evicted entry was issued no later than every entry the sweep retains.
C12_OldestEvictedFirst ==
  [][IssueStep =>
       \A i \in Evicted(challenges, challenges', now) :
         \A j \in 1..Len(challenges') :
           challenges'[j].nonce # nextNonce =>
             challenges[i].timestamp <= challenges'[j].timestamp]_vars

\* A batch challenge that is unexpired, was never found by POST /verify and
\* is gone from the ledger, while the ledger retains one issued later.
C12_Witness ==
  \E n \in Nonces :
    /\ issued[n].mode = "batch"
    /\ found[n] = 0
    /\ now <= issued[n].timestamp + challengeExpiryMs
    /\ ~Has(challenges, n)
    /\ \E j \in 1..Len(challenges) :
         /\ challenges[j].nonce < nextNonce - 1
         /\ challenges[j].timestamp > issued[n].timestamp

\* ---------------------------------------------------------------- websocket properties
\* The last step handled a frame of this type.
Handles(type) == inbound'.type = type /\ received' = received + 1

\* The frames of a type among those a step sent.
FramesOf(frames, type) == {i \in 1..Len(frames) : frames[i].type = type}

\* C13: challenge N+1 is sent only after challenge N was sent and an answer
\* to it was accepted, and every recorded answer is for a challenge that had
\* been sent.
C13_StrictlySequential ==
  /\ \A k \in 1..(challengeCount - 1) :
       lastSend[k] # Null =>
         \E i \in 1..Len(accepted) :
           /\ accepted[i].index = k - 1
           /\ accepted[i].from # Null
           /\ accepted[i].at <= lastSend[k]
  /\ \A i \in 1..Len(accepted) : accepted[i].from # Null

\* No challenge is outstanding: none was sent yet, or the last one sent was
\* answered and the next one is not sent yet.
NoActiveChallenge ==
  \/ lastSend[0] = Null
  \/ /\ session.current \in 1..(challengeCount - 1)
     /\ lastSend[session.current] = Null

\* C14: an answer that arrives while no challenge is outstanding gets the
\* NO_CHALLENGE error and leaves the session as it was.
C14_AnswerWithoutChallenge ==
  [][(Handles("answer") /\ NoActiveChallenge) =>
       /\ outbound' = <<ErrorFrame("NO_CHALLENGE")>>
       /\ session' = session
       /\ accepted' = accepted]_vars

\* C15: every ready after the first gets the ALREADY_STARTED error and does
\* nothing else: no challenge is sent again, no clock or timer is started.
C15_SecondReadyRejected ==
  [][(Handles("ready") /\ session.publicId # Null) =>
       /\ outbound' = <<ErrorFrame("ALREADY_STARTED")>>
       /\ session' = session
       /\ timers' = timers
       /\ lastSend' = lastSend]_vars

\* Every one of the challengeCount answers passes its own validator.
AllValid(answers) ==
  /\ Len(answers) = challengeCount
  /\ \A i \in 1..challengeCount : WsValidate(i - 1, answers[i])

C16_WitnessFailed ==
  /\ session.current = challengeCount
  /\ \E i \in FramesOf(outbound, "result") : ~outbound[i].verified
  /\ ~AllValid(session.answers)

\* C17: the time recorded for the answer to challenge N is the time between
\* the send of challenge N and the arrival of the answer, and is within the
\* limit.
C17_TimedFromOwnSend ==
  \A i \in 1..Len(accepted) :
    /\ accepted[i].from # Null
    /\ session.timings[i] = accepted[i].at - accepted[i].from
    /\ session.timings[i] <= timePerChallengeMs

\* A per-challenge deadline was breached: its timer fired or an answer came
\* late.
Breached ==
  \E i \in 1..Len(finished) : finished[i].message \in {"Timeout", "Too slow"}

\* C18: after a per-challenge deadline breach no challenge is sent and no
\* answer is evaluated any more.
C18_BreachIsTerminal ==
  [][Breached =>
       /\ FramesOf(outbound', "challenge") = {}
       /\ FramesOf(outbound', "ack") = {}
       /\ accepted' = accepted]_vars

\* C19: once the connection deadline timer has fired, the session never
\* yields verified = true, stores no token and invokes no onVerified.
C19_ConnectionDeadlineFinal ==
  [][connFired =>
       /\ verifiedTokens' = verifiedTokens
       /\ calls'.onVerified = calls.onVerified
       /\ \A i \in 1..Len(finished') : i > Len(finished) => ~finished'[i].verified]_vars

\* C20: a token is stored only by a session that finishes with verified =
\* true, with the publicId and nonce of that session, and never by a session
\* that has failed, timed out or closed.
C20_TokenOnlyOnSuccess ==
  [][verifiedTokens' # verifiedTokens =>
       /\ Len(verifiedTokens') = Len(verifiedTokens) + 1
       /\ Len(finished') = Len(finished) + 1
       /\ finished'[Len(finished')].verified
       /\ verifiedTokens'[Len(verifiedTokens')].publicId = session'.publicId
       /\ verifiedTokens'[Len(verifiedTokens')].nonce = session'.nonce
       /\ \A i \in 1..Len(finished) : finished[i].verified
       /\ ~connFired
       /\ readyState = "OPEN"]_vars

\* C21: once the connection has closed, no timer of the session is pending,
\* so none fires, and the session sends and records nothing further.
C21_CloseCancelsTimers ==
  [][readyState = "CLOSED" =>
       /\ timers = <<>>
       /\ timers' = timers
       /\ session' = session
       /\ finished' = finished
       /\ FramesOf(outbound', "challenge") = {}
       /\ FramesOf(outbound', "result") = {}]_vars

\* C22: no inbound frame, in any state of the session, makes the message
\* handler throw.
C22_MessageNeverThrows ==
  ~(crashed /\ inbound.type \in {"ready", "answer", "unknown", "invalid", "null"})

\* The error code of the frame that answers an unknown or malformed frame.
NoOpCode(type) == IF type = "invalid" THEN "INVALID_JSON" ELSE "UNKNOWN_TYPE"

\* The last step handled a frame that is not JSON or whose type is neither
\* ready nor answer.
HandlesNoOp == Handles("unknown") \/ Handles("invalid") \/ Handles("null")

\* The step left the session, its timers and the socket as they were.
SessionUntouched ==
  /\ session' = session
  /\ timers' = timers
  /\ readyState' = readyState
  /\ finished' = finished
  /\ accepted' = accepted
  /\ lastSend' = lastSend

\* C23: a frame that is not JSON or whose type is neither ready nor answer
\* is answered with exactly one error message and changes nothing: the
\* index, the answers, the timings, the challenge start, the timers and
\* the socket stay as they were.
C23_NoOpFrame ==
  [][HandlesNoOp =>
       /\ outbound' = <<ErrorFrame(NoOpCode(inbound'.type))>>
       /\ SessionUntouched]_vars

\* finishSession has sent a result message.
ResultSent == \E i \in 1..Len(finished) : finished[i].open

\* C28: after the result of a session nothing more happens to it: no
\* challenge, ack or result is sent, no callback runs, the recorded answers
\* and the index stay, and there is one result at most.
C28_TerminalAfterResult ==
  [][ResultSent =>
       /\ FramesOf(outbound', "challenge") = {}
       /\ FramesOf(outbound', "ack") = {}
       /\ FramesOf(outbound', "result") = {}
       /\ calls' = calls
       /\ session'.answers = session.answers
       /\ session'.current = session.current
       /\ finished' = finished]_vars

\* The results sent with this verdict.
ResultsWith(verified) ==
  {i \in 1..Len(finished) : finished[i].open /\ finished[i].verified = verified}

\* C30: a session that ended with a result of verified = false has invoked
\* onFailed exactly once, and one that ended with verified = true has
\* invoked onVerified exactly once.
C30_CallbackOncePerOutcome ==
  /\ ResultsWith(FALSE) # {} => calls.onFailed = 1
  /\ ResultsWith(TRUE) # {} => calls.onVerified = 1

\* ---------------------------------------------------------------- proofs
\* Prover.generateBatchProof: the proof the identity (publicId, key) builds
\* at its time `timestamp` for the batch of nonce n, having taken
\* responseTimeMs = Date.now() - startTime, which is 0 when the solutions
\* come within the millisecond.
generateBatchProof(n, solutions, publicId, key, timestamp, responseTimeMs) ==
  [nonce |-> n, isArray |-> TRUE, solutions |-> solutions,
   responseTimeMs |-> responseTimeMs, publicId |-> publicId,
   timestamp |-> timestamp, publicKey |-> key, bad |-> {},
   signature |-> sign(createProofData(n, JSONstringify(solutions), publicId, timestamp),
                      key)]

\* The proof of the prover that solved every challenge of nonce n.
CorrectProof(n, responseTimeMs) ==
  generateBatchProof(n, generateBatch(n, batchSize), 1, 1, 1, responseTimeMs)

\* A correct proof of which one signed field was changed after signing, the
\* signature held fixed: the last solution, the nonce (a proof signed for
\* the nonce 0 is submitted for n), the publicId or the timestamp.
TamperedProofs(n) ==
  {[CorrectProof(n, 1) EXCEPT !.solutions[batchSize] = Wrong(n, batchSize)],
   [generateBatchProof(0, generateBatch(n, batchSize), 1, 1, 1, 1) EXCEPT !.nonce = n],
   [CorrectProof(n, 1) EXCEPT !.publicId = 2],
   [CorrectProof(n, 1) EXCEPT !.timestamp = 2]}

\* The requests of the proof specification: for an issued nonce the correct
\* proof with every responseTimeMs from 0 to past the limit, the tampered
\* proofs, a proof signed by its prover over a wrong or a missing last
\* solution, a correct proof whose signature field is malformed; and a
\* correct proof for a nonce that was never issued.
ProofRequests(next) ==
  UNION {{CorrectProof(n, rt) : rt \in 0..(maxResponseTimeMs + 1)}
         \cup TamperedProofs(n)
         \cup {generateBatchProof(n, [generateBatch(n, batchSize) EXCEPT
                                        ![batchSize] = Wrong(n, batchSize)], 1, 1, 1, 1),
               generateBatchProof(n, generateBatch(n, batchSize - 1), 1, 1, 1, 1),
               [CorrectProof(n, 1) EXCEPT !.bad = {"signature"}]}
         : n \in 1..(next - 1)}
  \cup {CorrectProof(0, 1)}

\* The proof specification: one nonce, every minPassCount option, the
\* proofs above, callbacks that return or throw.
NextProof ==
  \/ Tick
  \/ PostChallenge(1)
  \/ PostVerify(ProofRequests(nextNonce), CallbackOutcomes)

SpecProof == InitChecks /\ [][NextProof]_vars

\* The error texts of the seven checks of POST /verify.
CheckErrors ==
  {"Invalid nonce format", "Invalid publicId format", "Invalid signature format",
   "Invalid publicKey format", "Invalid timestamp", "Invalid responseTimeMs",
   "Challenge not found or already used", "Challenge expired",
   "Expected size solutions", "Proof of Intelligence failed", "Response too slow",
   "Invalid signature (Proof of Identity failed)"}

\* C24: a POST /verify response has status 200 exactly when verified = true;
\* a response sent by a failed check has status 400, verified = false and a
\* check flag that is false; status 500 is the answer of the catch block
\* alone, that is, of an exception raised during verification.
C24_StatusMapping ==
  Verified =>
    /\ res.status \in {200, 400, 500}
    /\ res.status = 200 <=> res.verified
    /\ res.status = 200 => AllChecks(res.checks)
    /\ res.error \in CheckErrors => res.status = 400
    /\ res.status = 400 => res.error \in CheckErrors /\ ~AllChecks(res.checks)
    /\ res.status = 500 <=> res.error = "Verification error"

\* The timing check has failed a proof that passed the five checks before it.
C24_Witness ==
  /\ Verified
  /\ res.status = 400
  /\ res.error = "Response too slow"
  /\ res.checks["solutionsValid"]

\* The handler ran up to the signature check.
ReachedSignature ==
  /\ run.observed # <<>>
  /\ run.observed[Len(run.observed)].check = "signatureValid"

\* C25: a POST /verify that reaches the signature check with a solutions
\* array, nonce, publicId or timestamp other than the signed one is not
\* verified: signatureValid is false, every earlier flag is true, and the
\* handler's answer is 'Invalid signature (Proof of Identity failed)'.
C25_TamperDetected ==
  (endpoint = "verify" /\ ReachedSignature
     /\ request.nonce \in Nonces /\ request \in TamperedProofs(request.nonce)) =>
    /\ ~res.verified
    /\ res.status \in {400, 500}
    /\ res.checks = [NoChecks EXCEPT !["inputValid"] = TRUE,
                                     !["challengeExists"] = TRUE,
                                     !["notExpired"] = TRUE,
                                     !["solutionsExist"] = TRUE,
                                     !["solutionsValid"] = TRUE,
                                     !["responseTimeValid"] = TRUE]
    /\ res.status = 400 => res.error = "Invalid signature (Proof of Identity failed)"

\* A proof whose timestamp was changed after signing reached the signature
\* check and was turned away there.
C25_Witness ==
  /\ endpoint = "verify"
  /\ ReachedSignature
  /\ request.nonce \in Nonces
  /\ request = [CorrectProof(request.nonce, 1) EXCEPT !.timestamp = 2]
  /\ res.status = 400
  /\ res.error = "Invalid signature (Proof of Identity failed)"

\* The last request was the first submission of the proof generateBatchProof
\* builds from correct solutions, for a live batch, within the expiry and
\* with both the reported and the server-measured time within the limit.
TimelyCorrectProof ==
  /\ endpoint = "verify"
  /\ request.nonce \in Nonces
  /\ request = CorrectProof(request.nonce, request.responseTimeMs)
  /\ issued[request.nonce].mode = "batch"
  /\ run.priorFound = 0
  /\ run.t1 <= IssuedExpiresAt(request.nonce)
  /\ request.responseTimeMs <= maxResponseTimeMs
  /\ run.t2 - issued[request.nonce].timestamp <= maxResponseTimeMs

\* C27: such a proof is accepted with verified = true, unless a callback of
\* the server throws.
C27_RoundTrip ==
  (TimelyCorrectProof /\ res.json /\ res.status # 500) =>
    /\ res.verified
    /\ res.status = 200
    /\ AllChecks(res.checks)

\* The round trip of the proofs that report a positive responseTimeMs.
C27_RoundTripPositive ==
  (TimelyCorrectProof /\ request.responseTimeMs > 0 /\ res.json /\ res.status # 500) =>
    /\ res.verified
    /\ res.status = 200
    /\ AllChecks(res.checks)

\* ---------------------------------------------------------------- generator steps
\* The type argument of a call: a known type, or none.
TypeArguments == Types \cup {"none"}

\* generate(nonce, type) at issuance
CallGenerate ==
  /\ gen.stage = "none"
  /\ \E nonce \in GenNonces, type \in TypeArguments, random \in 1..Len(getTypes) :
       gen' = [NotGenerated EXCEPT !.stage = "issued", !.nonce = nonce, !.type = type,
                                   !.first = generate(nonce, type, random)]
  /\ UNCHANGED <<httpVars, wsVars, batch, query, check>>

\* generate(nonce, type) once more, with the same arguments
CallGenerateAgain ==
  /\ gen.stage = "issued"
  /\ \E random \in 1..Len(getTypes) :
       gen' = [gen EXCEPT !.stage = "regenerated",
                          !.second = generate(gen.nonce, gen.type, random)]
  /\ UNCHANGED <<httpVars, wsVars, batch, query, check>>

\* validate(type, nonce, solution)
CallValidate ==
  /\ gen.stage = "regenerated"
  /\ \E solution \in Solutions(gen.nonce) :
       gen' = [gen EXCEPT !.stage = "validated", !.solution = solution,
                          !.verdict = validate(gen.type, gen.nonce, solution)]
  /\ UNCHANGED <<httpVars, wsVars, batch, query, check>>

NextGen ==
  \/ CallGenerate
  \/ CallGenerateAgain
  \/ CallValidate

SpecGen == Init /\ [][NextGen]_vars

ChallengeOutstanding ==
  /\ session.current < challengeCount
  /\ lastSend[session.current] # Null
  /\ Len(session.answers) = session.current

\* The client's one ready, after the handshake.
HonestReady ==
  /\ received = 0
  /\ readyState = "OPEN"
  /\ RecvReady

\* The right answer to the outstanding challenge, within timePerChallengeMs.
HonestAnswer ==
  /\ ChallengeOutstanding
  /\ readyState = "OPEN"
  /\ wsNow - session.challengeStart <= timePerChallengeMs
  /\ Receive(Event("answer", 0, WsExpected(session.current)))

\* A millisecond passes, but not the last one the client has for its answer.
HonestTick ==
  /\ (ChallengeOutstanding /\ readyState = "OPEN") =>
       wsNow + 1 - session.challengeStart <= timePerChallengeMs
  /\ WsTick

\* The 'close' event that ends the closing handshake the server began.
HonestClose ==
  /\ readyState = "CLOSING"
  /\ SocketClose

NextHonest ==
  \/ HonestTick
  \/ HonestReady
  \/ HonestAnswer
  \/ ConnectionTimeout
  \/ ChallengeTimeout
  \/ NextChallenge
  \/ DelayedClose
  \/ HonestClose

\* The honest prover specification: the client of the connection sends one
\* ready and answers every challenge it receives correctly and in time;
\* pending timers fire and the client's frames arrive.
SpecHonest == Init /\ [][NextHonest]_vars /\ WF_vars(NextHonest)

\* The session has one result: verified, passed equal to total, sent on the
\* open socket, with one token stored for it and onVerified called once.
HonestVerified ==
  /\ Len(finished) = 1
  /\ finished[1].verified
  /\ finished[1].open
  /\ finished[1].message = "All challenges passed"
  /\ PassedCount(finished[1].answers) = challengeCount
  /\ Len(verifiedTokens) = 1
  /\ verifiedTokens[1].publicId = session.publicId
  /\ verifiedTokens[1].nonce = session.nonce
  /\ verifiedTokens[1].expiresAt = finished[1].at + tokenTtlMs
  /\ calls = [onVerified |-> 1, onFailed |-> 0]

C31_SessionBookkeeping ==
  /\ Len(session.answers) = Len(session.timings)
  /\ Len(session.answers) = session.current
  /\ session.current <= challengeCount

\* ---------------------------------------------------------------- generateBatch steps
\* generateBatch(nonce, count) is called; the example server always asks for
\* BATCH_SIZE challenges.  The for loop is entered when 0 < count.
CallGenerateBatch ==
  /\ batch.pc = "idle"
  /\ \E variant \in Variants, nonce \in GenNonces, count \in 0..MaxCount :
       /\ variant = "example" => count = EXAMPLE_BATCH_SIZE
       /\ batch' = [NotCalled EXCEPT !.variant = variant, !.nonce = nonce,
                                     !.count = count,
                                     !.pc = IF 0 < count THEN "select" ELSE "returned"]
  /\ UNCHANGED <<httpVars, wsVars, gen, query, check>>

\* One run of the body of the do-while loop.
SelectType ==
  /\ batch.pc = "select"
  /\ batch' = [batch EXCEPT
                 !.selectedType = selectType(batch.variant, batch.nonce, batch.i,
                                             batch.attempts),
                 !.attempts = IF batch.variant = "packaged" THEN @ + 1 ELSE @,
                 !.pc = "while"]
  /\ UNCHANGED <<httpVars, wsVars, gen, query, check>>

\* The loop condition holds: the body runs again.
LoopAgain ==
  /\ batch.pc = "while"
  /\ loopCondition(batch.variant, batch.usedTypes, batch.selectedType)
  /\ batch' = [batch EXCEPT !.pc = "select"]
  /\ UNCHANGED <<httpVars, wsVars, gen, query, check>>

\* The loop is left: the type is marked used, the challenge and its
\* validator are pushed, i++ and the test of the for loop.
PushChallenge ==
  /\ batch.pc = "while"
  /\ ~loopCondition(batch.variant, batch.usedTypes, batch.selectedType)
  /\ LET result == generatorOf(batch.variant, batch.selectedType,
                               offsetNonce(batch.nonce, batch.i))
     IN batch' = [batch EXCEPT
                    !.usedTypes = @ \cup {batch.selectedType},
                    !.challenges = Append(@, [id |-> batch.i,
                                              type |-> batch.selectedType,
                                              challenge_string |-> result.challenge_string]),
                    !.validators = Append(@, result.validate),
                    !.i = @ + 1,
                    !.attempts = 0,
                    !.pc = IF batch.i + 1 < batch.count THEN "select" ELSE "returned"]
  /\ UNCHANGED <<httpVars, wsVars, gen, query, check>>

NextBatch ==
  \/ CallGenerateBatch
  \/ SelectType
  \/ LoopAgain
  \/ PushChallenge

\* The generateBatch specification: one call, whose steps are taken as long
\* as the function has not returned.
SpecBatch == Init /\ [][NextBatch]_vars /\ WF_vars(NextBatch)

\* C32: every call of generateBatch returns: its type-selection loop ends
\* after finitely many iterations, in the packaged generator and in the
\* example batch server.
C32_GenerateBatchTerminates ==
  (batch.pc # "idle") ~> (batch.pc = "returned")

\* The packaged generator returns: its attempts counter walks through every
\* type within types.length iterations.
PackagedTerminates ==
  /\ (batch.pc # "idle" /\ batch.variant = "packaged") ~> (batch.pc = "returned")
  /\ [](batch.variant = "packaged" => batch.attempts <= Len(getTypes))

\* The packaged generateBatch has returned.
PackagedReturned == batch.pc = "returned" /\ batch.variant = "packaged"

\* C33: the packaged generateBatch(nonce, count) returns exactly count
\* challenges with the ids 0..count-1 in order and exactly count validators;
\* validator i is the one the generator of challenge i's type returns for
\* the nonce of challenge i, as is its challenge text; and when count is at
\* most the number of types, the types are pairwise distinct.
C33_BatchShape ==
  PackagedReturned =>
    /\ Len(batch.challenges) = batch.count
    /\ Len(batch.validators) = batch.count
    /\ \A k \in 1..Len(batch.challenges) :
         /\ batch.challenges[k].id = k - 1
         /\ batch.challenges[k].type \in Types
         /\ k <= Len(batch.validators)
              => batch.validators[k] =
                   CHALLENGE_TYPES(batch.challenges[k].type,
                                   offsetNonce(batch.nonce, k - 1)).validate
         /\ batch.challenges[k].challenge_string =
              CHALLENGE_TYPES(batch.challenges[k].type,
                              offsetNonce(batch.nonce, k - 1)).challenge_string
    /\ batch.count <= Len(getTypes) =>
         \A k, l \in 1..Len(batch.challenges) :
           k # l => batch.challenges[k].type # batch.challenges[l].type

\* C33 witness: a batch of as many challenges as there are types has been
\* returned whose second challenge first drew the type of the first one and
\* was given the other type by a further run of the loop.
C33_Witness ==
  /\ PackagedReturned
  /\ batch.count = Len(getTypes)
  /\ Len(batch.challenges) = batch.count
  /\ selectType("packaged", batch.nonce, 1, 0) = batch.challenges[1].type
  /\ batch.challenges[2].type # batch.challenges[1].type

\* ---------------------------------------------------------------- sweep
\* The entries of the ledger that are past expiresAt at time t.
PastExpiry(L, t) == {i \in 1..Len(L) : t > L[i].expiresAt}

\* The step was a verification request that names nonce n.
VerifiesNonce(n) ==
  /\ endpoint' \in {"verify", "verify/single"}
  /\ request'.nonce = n

\* C34: the sweep of an issuing request at time now removes every entry with
\* now > expiresAt; when no more than MAX_CHALLENGES entries remain after
\* that, it removes nothing else and keeps their order; and an entry that
\* is not past expiresAt leaves the ledger only in a verification request
\* that names its nonce or in a sweep that found more than MAX_CHALLENGES
\* unexpired entries.
C34_SweepRemovesOnlyExpired ==
  [][LET old == 1..Len(challenges)
         expired == PastExpiry(challenges, now)
         live == SelectSeq(challenges, LAMBDA e : ~(now > e.expiresAt))
     IN /\ IssueStep =>
             /\ \A i \in expired : ~Has(challenges', challenges[i].nonce)
             /\ Len(live) <= MAX_CHALLENGES =>
                  /\ Len(challenges') = Len(live) + 1
                  /\ SubSeq(challenges', 1, Len(live)) = live
        /\ \A i \in old \ expired :
             ~Has(challenges', challenges[i].nonce) =>
               \/ VerifiesNonce(challenges[i].nonce)
               \/ IssueStep /\ Len(live) > MAX_CHALLENGES]_vars

\* C34 witness: an issuing request has just run its sweep at a time when a
\* batch challenge nobody tried to verify was past expiresAt and another
\* challenge was not: the first is gone, the second is still in the ledger.
C34_Witness ==
  /\ endpoint \in {"challenge", "challenge/single"}
  /\ Len(challenges) <= MAX_CHALLENGES
  /\ \E n, m \in Nonces :
       /\ issued[n].mode = "batch"
       /\ found[n] = 0
       /\ run.t1 > issued[n].timestamp + challengeExpiryMs
       /\ ~Has(challenges, n)
       /\ m # run.entry.nonce
       /\ Has(challenges, m)
       /\ run.t1 <= Get(challenges, m).expiresAt

\* ---------------------------------------------------------------- modes
\* The requests of the modes specification: per issued nonce the proof of an
\* honest prover for the batch endpoint, and one whose solutions array holds
\* the one answer of the nonce's single challenge.
ModeRequests(next) ==
  UNION {{HonestRequest(n, 1),
          VerifyRequest(n, TRUE, <<generateChallenge(n)>>, 1, "own", {})}
         : n \in 1..(next - 1)}

\* Per issued nonce the right and a wrong answer for the single endpoint.
ModeSingleRequests(next) ==
  UNION {{SingleRequest(n, generateChallenge(n), TRUE, 1, "own"),
          SingleRequest(n, Wrong(n, 0), TRUE, 1, "own")}
         : n \in 1..(next - 1)}

\* The modes specification: nonces of both modes, each submitted to both
\* verification endpoints; the default options, callbacks that return.
NextModes ==
  \/ Tick
  \/ PostChallenge(NumNonces)
  \/ PostChallengeSingle(NumNonces)
  \/ PostVerify(ModeRequests(nextNonce), {<<FALSE, FALSE>>})
  \/ PostVerifySingle(ModeSingleRequests(nextNonce))

SpecModes == Init /\ [][NextModes]_vars

\* The mode the nonce of the last request was issued in, or "none".
IssuedMode(n) == IF n \in Nonces THEN issued[n].mode ELSE "none"

\* C35: a nonce is verified only through the endpoint of the mode it was
\* issued in.  A POST /verify/single that names a nonce issued by POST
\* /challenge is answered 400 'Single challenge not found' and leaves the
\* ledger as it was; a POST /verify that names a nonce issued by POST
\* /challenge/single is never answered verified = true.
C35_ModeIsolation ==
  /\ [](res.verified =>
          \/ endpoint = "verify" /\ IssuedMode(request.nonce) = "batch"
          \/ endpoint = "verify/single" /\ IssuedMode(request.nonce) = "single")
  /\ []((endpoint = "verify" /\ IssuedMode(request.nonce) = "single") => ~res.verified)
  /\ [][(endpoint' = "verify/single" /\ now' = now /\ nextNonce' = nextNonce
           /\ IssuedMode(request'.nonce) = "batch") =>
          /\ res'.status = 400
          /\ ~res'.verified
          /\ res'.error = "Single challenge not found"
          /\ challenges' = challenges]_vars

\* C35 witness: the right answer to a batch nonce's single-mode validator was
\* sent to POST /verify/single while the nonce's entry was in the ledger; it
\* was turned away and the entry is still there.
C35_Witness ==
  /\ endpoint = "verify/single"
  /\ IssuedMode(request.nonce) = "batch"
  /\ Has(challenges, request.nonce)
  /\ now <= Get(challenges, request.nonce).expiresAt
  /\ request = SingleRequest(request.nonce, generateChallenge(request.nonce), TRUE, 1, "own")
  /\ res.error = "Single challenge not found"

\* A single nonce's entry was found by POST /verify and is answered with a
\* failure.
C35_WitnessSingleAtBatch ==
  /\ endpoint = "verify"
  /\ IssuedMode(request.nonce) = "single"
  /\ run.found
  /\ ~res.verified
  /\ ~Has(challenges, request.nonce)

\* ---------------------------------------------------------------- session tokens
\* The host calls isVerified(token) with a token of the Map or with one the
\* Map does not hold (0, or one past the last).
CallIsVerified ==
  /\ ~crashed
  /\ \E token \in 0..(Len(verifiedTokens) + 1) :
       query' = [token |-> token, at |-> wsNow,
                 result |-> isVerified(verifiedTokens, token, wsNow)]
  /\ UNCHANGED <<httpVars, wsVars, gen, batch, check>>

\* The token specification: one connection whose client sends one ready and
\* then any answers, the timers, the clock, and calls of isVerified.
NextTokens ==
  \/ WsTick
  \/ HonestReady
  \/ RecvAnswer
  \/ ConnectionTimeout
  \/ ChallengeTimeout
  \/ NextChallenge
  \/ DelayedClose
  \/ SocketClose
  \/ CallIsVerified

SpecTokens == Init /\ [][NextTokens]_vars

\* The k-th entry of verifiedTokens was stored by a call of finishSession
\* with verified = true at time verifiedAt.
StoredBySuccess(k) ==
  \E i \in 1..Len(finished) :
    /\ finished[i].verified
    /\ finished[i].at = verifiedTokens[k].verifiedAt

\* C36: isVerified(token) is true exactly when the token's entry was stored
\* by a successful session and the call is made before the entry's
\* expiresAt, which is tokenTtlMs after the session was verified; for a
\* token the Map does not hold, and at or after expiresAt, it is not true.
C36_TokenTtl ==
  /\ [](\A k \in 1..Len(verifiedTokens) :
          /\ StoredBySuccess(k)
          /\ verifiedTokens[k].expiresAt = verifiedTokens[k].verifiedAt + tokenTtlMs)
  /\ [][query' # query =>
          /\ query'.at = wsNow
          /\ query'.result = "true" <=>
               /\ query'.token \in 1..Len(verifiedTokens)
               /\ StoredBySuccess(query'.token)
               /\ wsNow < verifiedTokens[query'.token].verifiedAt + tokenTtlMs
          /\ query'.token \notin 1..Len(verifiedTokens) => query'.result = "undefined"
          /\ (/\ query'.token \in 1..Len(verifiedTokens)
              /\ wsNow >= verifiedTokens[query'.token].expiresAt)
               => query'.result = "false"]_vars

\* C36 witness: isVerified was called for a stored token at the very instant
\* of its expiresAt and did not return true.
C36_Witness ==
  /\ query.token \in 1..Len(verifiedTokens)
  /\ query.at = verifiedTokens[query.token].expiresAt
  /\ query.result = "false"

\* isVerified returned true for a stored token one instant before expiresAt.
C36_WitnessLastInstant ==
  /\ query.token \in 1..Len(verifiedTokens)
  /\ query.at = verifiedTokens[query.token].expiresAt - 1
  /\ query.result = "true"

\* ---------------------------------------------------------------- validator steps
\* A validator closure of challenges.js is called with a value.  The salt
\* issued with the challenge is the one its text carries.  A closure keeps
\* no state between calls, so one call per behaviour is followed.
CallPackagedValidator ==
  /\ check.outcome = "none"
  /\ \E nonce \in GenNonces, type \in Types :
       LET challenge == CHALLENGE_TYPES(type, nonce)
       IN \E value \in AnswerValues(nonce) :
            check' = [family |-> "packaged", nonce |-> nonce, type |-> type,
                      issuedSalt |-> challenge.challenge_string[1],
                      validate |-> challenge.validate, value |-> value,
                      outcome |-> callValidator(challenge.validate, value)]
  /\ UNCHANGED <<httpVars, wsVars, gen, batch, query>>

\* A validator closure of the WebSocket server is called with msg.answer.
CallGeneratorValidator ==
  /\ check.outcome = "none"
  /\ \E nonce \in GenNonces, index \in 0..(challengeCount - 1) :
       LET challenge == wsGenerateChallenge(nonce, index)
       IN \E value \in WsAnswerValues(nonce, index) :
            check' = [family |-> "websocket", nonce |-> nonce, type |-> challenge.type,
                      issuedSalt |-> challenge.challenge[1],
                      validate |-> challenge.validate, value |-> value,
                      outcome |-> callGeneratorValidator(challenge.validate, value)]
  /\ UNCHANGED <<httpVars, wsVars, gen, batch, query>>

NextValidators ==
  \/ CallPackagedValidator
  \/ CallGeneratorValidator

SpecValidators == Init /\ [][NextValidators]_vars

\* The value is a JSON object (in a text, or as msg.answer).
CarriesObject ==
  \/ check.family = "packaged" /\ check.value.kind = "string" /\ check.value.body.json
  \/ check.family = "websocket" /\ check.value.kind = "object"

\* The field of the object holds the expected answer, under the equality of
\* the validator's type: text without regard to case in challenges.js,
\* strict equality in the WebSocket server.
FieldCorrect ==
  IF check.validate.kind = "result"
  THEN check.value.body.result = check.validate.result
  ELSE IF check.family = "packaged"
       THEN /\ check.value.body.answer # ""
            /\ toUpperCase(check.value.body.answer) = toUpperCase(check.validate.answer)
       ELSE check.value.body.answer = check.validate.answer

\* C37: a validator never raises: called with a value that is not a string,
\* a string without JSON, malformed JSON, an object whose salt is wrong or
\* missing or whose field is wrong, it returns false; an answer whose salt
\* differs from the one issued with the challenge is rejected even when its
\* field is correct; and only an object with the issued salt and the
\* correct field is accepted.
C37_ValidatorsNeverThrow ==
  check.outcome # "none" =>
    /\ check.outcome \in {"true", "false"}
    /\ ~CarriesObject => check.outcome = "false"
    /\ (CarriesObject /\ check.value.body.salt # check.issuedSalt) => check.outcome = "false"
    /\ (CarriesObject /\ ~FieldCorrect) => check.outcome = "false"
    /\ check.outcome = "true" <=>
         (CarriesObject /\ check.value.body.salt = check.issuedSalt /\ FieldCorrect)

\* C37 witness: a validator of challenges.js was called with a value that is
\* not a string and returned false.
C37_Witness ==
  /\ check.family = "packaged"
  /\ check.value.kind = "nonstring"
  /\ check.outcome = "false"

\* An answer with the correct field and the salt of another challenge was
\* rejected.
C37_WitnessSalt ==
  /\ CarriesObject
  /\ FieldCorrect
  /\ check.value.body.salt # <<>>
  /\ check.value.body.salt # check.issuedSalt
  /\ check.outcome = "false"

\* An answer with the issued salt and the correct field was accepted.
C37_WitnessAccepted ==
  /\ CarriesObject
  /\ check.outcome = "true"
====
